---- MODULE Spec2Model ----
(***************************************************************************)
(* Model of the acceptance-test framework's Kubernetes environment         *)
(* (acceptance/framework/environment/environment.go) and of the connect    *)
(* injection acceptance tests that use it.                                  *)
(*                                                                         *)
(* Part I models the context registry (KubernetesEnvironment) and the      *)
(* lazily resolved kubernetesContext.  A test that holds a context calls   *)
(* KubectlOptions and KubernetesClient on it; both methods have VALUE      *)
(* receivers, so each call works on a copy of the registered context.      *)
(* Part II models the control flow of the connect-inject test cases.       *)
(***************************************************************************)
EXTENDS Integers, Sequences, FiniteSets, TLC

(***************************************************************************)
(* Bounds of the model.                                                    *)
(***************************************************************************)
\* accessor calls (KubectlOptions, KubernetesClient) made in one run
MaxCalls == 2

(***************************************************************************)
(* Program constants.                                                      *)
(***************************************************************************)
DefaultContextName == "default"
SecondaryContextName == "secondary"
\* metav1.NamespaceDefault
NamespaceDefault == "default"

\* a nil pointer / nil interface (options and clients are heap indices >= 1)
Nil == 0
\* no TestContext value held or returned
NoCtx == "none"

(***************************************************************************)
(* Small input domains.                                                    *)
(***************************************************************************)
\* the test that uses the environment
Tests == {"t1"}
\* names a test may ask the registry for
LookupNames == {DefaultContextName, SecondaryContextName, "nonexistent"}
\* context names that may occur in the kubeconfig file
KubeContexts == {"kc1", "kc2"}
\* the path GetConfigPath falls back to when ConfigPath is empty
HomeKubeConfig == "~/.kube/config"
\* values of the -kubeconfig flag: unset, or the home kubeconfig spelled out
ConfigPaths == {"", HomeKubeConfig}
\* values of the -kube-namespace flag
FlagNamespaces == {"", "ns1"}
\* values of the -kube-context flag
FlagContexts == {"", "kc1"}
\* values of the -secondary-kube-context flag
SecondaryFlagContexts == {"kc2"}
\* namespaces a kubeconfig context entry may record ("" = none recorded)
FileNamespaces == {"", "teamA"}

\* every content the kubeconfig file may have: a current-context and a map
\* from some context names to entries (a missing key is a nil *api.Context)
PartialMaps(D, R) == UNION {[S -> R] : S \in SUBSET D}
FileContents ==
    [CurrentContext : KubeContexts,
     Contexts : PartialMaps(KubeContexts, [Namespace : FileNamespaces])]

VARIABLES
    built,        \* how the registry was constructed
    contexts,     \* KubernetesEnvironment.contexts: name -> *kubernetesContext
    ctxObj,       \* the kubernetesContext objects, by address
    kubeconfig,   \* what the kubeconfig file holds now
    optHeap,      \* the k8s.KubectlOptions objects allocated so far
    clientHeap,   \* the API clients constructed so far
    held,         \* the TestContext each test holds (from the registry)
    tstate,       \* each test: "running", or "failed" (t.FailNow was called)
    crashed,      \* the test process died of a panic
    ncalls,       \* accessor calls made so far
    ret,          \* the last call and what it gave back
    hist          \* per context object, what the accessor calls did so far

envVars == <<built, contexts, ctxObj, kubeconfig, optHeap, clientHeap, held, tstate,
             crashed, ncalls, ret, hist>>

\* Part II's variables: the test function that runs its cases
VARIABLES
    fn,        \* the test function that runs
    todo,      \* the cases of its table not yet started
    cur,       \* the case that runs now (NoCase between cases)
    pc,        \* the position of the running case in its script
    helper,    \* the case's ConnectHelper
    trace,     \* the steps the running (or last) case executed, with outcomes
    verdict,   \* case -> "pass" or "fail", for the cases that ended
    attempt,   \* attempts the running retry.Run has used up
    seen,      \* the catalog lookups of the last attempt of the last poll
    podName,   \* the static-client pod the case found
    deletes,   \* forced pod deletions the running (or last) case issued
    poll,      \* the last attempt of the last retry.Run and what it recorded
    tproxy,    \* cfg.EnableTransparentProxy
    urls       \* the URLs the connectivity checks of the case targeted

flowVars == <<fn, todo, cur, pc, helper, trace, verdict, attempt, seen, podName,
             deletes, poll, tproxy, urls>>

\* the variables of the two small specifications: a ConnectHelper driven
\* call by call, and test cases that call the accessors concurrently
VARIABLES
    release,   \* the release the ConnectHelper manages
    caller     \* per concurrent caller, the frame of its accessor call

auxVars == <<release, caller>>

vars == <<envVars, flowVars, auxVars>>

(***************************************************************************)
(* Construction.                                                           *)
(***************************************************************************)
NewContext(namespace, pathToKubeConfig, kubeContextName) ==
    [namespace |-> namespace,
     pathToKubeConfig |-> pathToKubeConfig,
     kubeContextName |-> kubeContextName,
     client |-> Nil,
     options |-> Nil]

\* the fields of config.TestConfig the constructor reads
TestConfigs ==
    [KubeNamespace : FlagNamespaces, Kubeconfig : ConfigPaths,
     KubeContext : FlagContexts, EnableMultiCluster : BOOLEAN,
     SecondaryKubeNamespace : FlagNamespaces, SecondaryKubeconfig : {""},
     SecondaryKubeContext : SecondaryFlagContexts]

\* the *kubernetesContext values in play: the addresses of the objects
\* NewContext allocates
Addrs == {"ctx1", "ctx2"}

\* The constructor with the multi-cluster test left out: the secondary
\* context is always registered
NewKubernetesEnvironmentAlwaysSecondary(config) ==
    [contexts |-> (DefaultContextName :> "ctx1") @@ (SecondaryContextName :> "ctx2"),
     heap |-> ("ctx1" :> NewContext(config.KubeNamespace, config.Kubeconfig,
                                    config.KubeContext)) @@
              ("ctx2" :> NewContext(config.SecondaryKubeNamespace,
                                    config.SecondaryKubeconfig,
                                    config.SecondaryKubeContext))]

\* The registry built from a configuration: the objects allocated (heap) and
\* the map (contexts); the secondary entry only with multi-cluster enabled.
NewKubernetesEnvironmentFromConfig(config) ==
    LET defaultContext ==
            NewContext(config.KubeNamespace, config.Kubeconfig, config.KubeContext)
        kenv == [contexts |-> (DefaultContextName :> "ctx1"),
                 heap |-> ("ctx1" :> defaultContext)]
    IN  IF config.EnableMultiCluster
        THEN [contexts |-> kenv.contexts @@ (SecondaryContextName :> "ctx2"),
              heap |-> kenv.heap @@
                  ("ctx2" :> NewContext(config.SecondaryKubeNamespace,
                                        config.SecondaryKubeconfig,
                                        config.SecondaryKubeContext))]
        ELSE kenv

\* The registry built from one pre-built context (given by its address).
NewKubernetesEnvironmentFromContext(context) ==
    (DefaultContextName :> context)

(***************************************************************************)
(* The accessors.  An accessor call performs a sequence of external        *)
(* operations (terratest, client-go); each is followed by require.NoError, *)
(* which ends the calling test (t.FailNow) when the operation failed.      *)
(* failAt is the position, in the sequence of external operations of one   *)
(* call, of the operation that fails (0: none fails).                      *)
(***************************************************************************)
\* options.GetConfigPath(t): the explicit path, else the home kubeconfig
GetConfigPath(options) ==
    IF options.ConfigPath # "" THEN options.ConfigPath ELSE HomeKubeConfig

\* the external operations KubernetesContextFromOptions performs
ContextFromOptionsOps(options) ==
    IF options.ContextName # ""
    THEN <<>>
    ELSE <<"Ctx.GetConfigPath", "Ctx.LoadConfigFromPath">>

\* the context name KubernetesContextFromOptions returns
KubernetesContextFromOptions(options, file) ==
    IF options.ContextName # ""
    THEN options.ContextName
    ELSE file.CurrentContext

\* the options value used where a call hands none back
NoOptions == [ContextName |-> "", ConfigPath |-> "", Namespace |-> ""]

\* the k8s.KubectlOptions literal built from the receiver's fields
NewOptions(k) ==
    [ContextName |-> k.kubeContextName,
     ConfigPath |-> k.pathToKubeConfig,
     Namespace |-> k.namespace]

\* the external operations of the namespace resolution, in order
ResolveOps(k) ==
    <<"GetConfigPath", "LoadConfigFromPath">> \o ContextFromOptionsOps(NewOptions(k))

\* the namespace chosen once the file is loaded and the context entry exists
ResolvedNamespace(file, contextName) ==
    IF file.Contexts[contextName].Namespace # ""
    THEN file.Contexts[contextName].Namespace
    ELSE NamespaceDefault

\* One run of KubectlOptions on the receiver copy k (not cached):
\* status "ok" (options built), "aborted" (a require failed) or "panic"
\* (rawConfig.Contexts[contextName] is nil and its Namespace is read).
ResolveOptions(k, file, failAt) ==
    LET o == NewOptions(k)
        plan == ResolveOps(k)
        contextName == KubernetesContextFromOptions(o, file)
    IN  IF k.namespace # ""
        THEN [status |-> "ok", options |-> o, log |-> <<>>]
        ELSE IF failAt \in 1..Len(plan)
        THEN [status |-> "aborted", options |-> NoOptions,
              log |-> SubSeq(plan, 1, failAt)]
        ELSE IF contextName \notin DOMAIN file.Contexts
        THEN [status |-> "panic", options |-> NoOptions, log |-> plan]
        ELSE [status |-> "ok",
              options |-> [o EXCEPT !.Namespace = ResolvedNamespace(file, contextName)],
              log |-> plan]

\* kubernetesContext.KubectlOptions on the receiver copy k: "cached" hands
\* back k.options, otherwise the outcome of the resolution.
KubectlOptionsRun(k, file, failAt) ==
    IF k.options # Nil
    THEN [status |-> "cached", options |-> NoOptions, log |-> <<>>]
    ELSE ResolveOptions(k, file, failAt)

\* the external operations of KubernetesClientFromOptions, in order
ClientOps == <<"Client.GetConfigPath", "LoadApiClientConfigE", "NewForConfig">>

\* LoadApiClientConfigE fails when the context it is to use has no entry
ClientConfigLoadable(options, file) ==
    KubernetesContextFromOptions(options, file) \in DOMAIN file.Contexts

\* KubernetesClientFromOptions: the client's configuration, or the abort.
\* failAt counts from the first operation of this function.
KubernetesClientFromOptions(options, file, failAt) ==
    LET forced == IF ClientConfigLoadable(options, file) THEN 0 ELSE 2
        at == IF failAt \in 1..Len(ClientOps) /\ (forced = 0 \/ failAt < forced)
              THEN failAt ELSE forced
    IN  IF at # 0
        THEN [status |-> "aborted", config |-> NoOptions,
              log |-> SubSeq(ClientOps, 1, at)]
        ELSE [status |-> "ok",
              config |-> [options EXCEPT !.ConfigPath = GetConfigPath(options)],
              log |-> ClientOps]

\* the most external operations one accessor call can perform
MaxOps == Len(<<"GetConfigPath", "LoadConfigFromPath", "Ctx.GetConfigPath",
                "Ctx.LoadConfigFromPath">>) + Len(ClientOps)

(***************************************************************************)
(* Initial states: the registry right after either constructor returned,   *)
(* any kubeconfig file, no test has called anything yet.                   *)
(***************************************************************************)
NoRet ==
    [op |-> "none", t |-> "none", arg |-> "", status |-> "none", ctx |-> NoCtx,
     ptr |-> Nil, log |-> <<>>, msg |-> ""]

NoHist == [opts |-> {}, clients |-> {}, resolutions |-> 0, built |-> 0, cfgLoads |-> 0]

InitFromConfig ==
    \E config \in TestConfigs :
        /\ ~config.EnableMultiCluster => config.SecondaryKubeNamespace = ""
        /\ built = [ctor |-> "FromConfig", EnableMultiCluster |-> config.EnableMultiCluster]
        /\ contexts = NewKubernetesEnvironmentFromConfig(config).contexts
        /\ ctxObj = NewKubernetesEnvironmentFromConfig(config).heap

InitFromContext ==
    \E ns \in FlagNamespaces, path \in ConfigPaths, kc \in FlagContexts :
        /\ built = [ctor |-> "FromContext", EnableMultiCluster |-> FALSE]
        /\ ctxObj = ("ctx1" :> NewContext(ns, path, kc))
        /\ contexts = NewKubernetesEnvironmentFromContext("ctx1")

EnvInit ==
    /\ InitFromConfig \/ InitFromContext
    /\ kubeconfig \in FileContents
    /\ optHeap = <<>>
    /\ clientHeap = <<>>
    /\ held = [t \in Tests |-> NoCtx]
    /\ tstate = [t \in Tests |-> "running"]
    /\ crashed = FALSE
    /\ ncalls = 0
    /\ ret = NoRet
    /\ hist = [a \in DOMAIN ctxObj |-> NoHist]

(***************************************************************************)
(* The registry's lookups.                                                 *)
(***************************************************************************)
\* Lookup without the comma-ok test: a missing name gives the zero value
LookupUnchecked(ctxs, name) ==
    [ctx |-> IF name \in DOMAIN ctxs THEN ctxs[name] ELSE NoCtx,
     ok |-> TRUE]

\* ctx, ok := k.contexts[name]
Lookup(ctxs, name) ==
    [ctx |-> IF name \in DOMAIN ctxs THEN ctxs[name] ELSE NoCtx,
     ok |-> name \in DOMAIN ctxs]

CanRun(t) == ~crashed /\ tstate[t] = "running"

\* A lookup by test t: require.Truef ends the test when ok is false, and
\* the context is handed to the test only otherwise.
LookupBy(t, op, name, msg) ==
    LET r == Lookup(contexts, name)
    IN  /\ CanRun(t)
        /\ held' = IF r.ok THEN [held EXCEPT ![t] = r.ctx] ELSE held
        /\ tstate' = IF r.ok THEN tstate ELSE [tstate EXCEPT ![t] = "failed"]
        /\ ret' = [op |-> op, t |-> t, arg |-> name,
                   status |-> IF r.ok THEN "ok" ELSE "aborted",
                   ctx |-> IF r.ok THEN r.ctx ELSE NoCtx,
                   ptr |-> Nil, log |-> <<>>,
                   msg |-> IF r.ok THEN "" ELSE msg]
        /\ UNCHANGED <<built, contexts, ctxObj, kubeconfig, optHeap, clientHeap,
                       crashed, ncalls, hist, flowVars, auxVars>>

Context(t, name) ==
    LookupBy(t, "Context", name, "requested context not found")

DefaultContext(t) ==
    LookupBy(t, "DefaultContext", DefaultContextName, "default context not found")

(***************************************************************************)
(* The accessor calls.  The receiver is a VALUE: the call copies the       *)
(* registered object (k), and the assignments k.options = ..., k.client =  *)
(* ... change the copy.                                                    *)
(***************************************************************************)
\* StoreOptions for a method whose receiver is a pointer: the registered
\* object is written
StoreOptionsInPlace(objs, addr, ptr) == [objs EXCEPT ![addr].options = ptr]

\* k.options = &k8s.KubectlOptions{...} in a method whose receiver is a
\* value: the registered object keeps its options field
StoreOptions(objs, addr, ptr) == objs

\* k.client = ... in a method whose receiver is a value
StoreClient(objs, addr, ptr) == objs

\* how often op occurs in a log
CountOp(log, op) == Cardinality({i \in 1..Len(log) : log[i] = op})

\* the history of a context object after a call that ran log and ended in
\* status: the config files loaded, and the clients constructed
Logged(h, log, status) ==
    [h EXCEPT !.resolutions = @ + CountOp(log, "LoadConfigFromPath"),
              !.cfgLoads = @ + CountOp(log, "LoadApiClientConfigE"),
              !.built = @ + (IF status = "ok" THEN CountOp(log, "NewForConfig") ELSE 0)]

\* Outcome with assert.NoError in place of require.NoError: the failure is
\* recorded and the test goes on
OutcomeWithoutFailNow(t, status) ==
    /\ tstate' = tstate
    /\ crashed' = (status = "panic")

\* what a call's outcome does to the calling test and to the process
Outcome(t, status) ==
    /\ tstate' = IF status = "aborted" THEN [tstate EXCEPT ![t] = "failed"] ELSE tstate
    /\ crashed' = (status = "panic")

KubectlOptions(t, failAt) ==
    /\ CanRun(t) /\ held[t] # NoCtx /\ ncalls < MaxCalls
    /\ failAt <= Len(KubectlOptionsRun(ctxObj[held[t]], kubeconfig, 0).log)
    /\ LET addr == held[t]
           k == ctxObj[addr]
           r == KubectlOptionsRun(k, kubeconfig, failAt)
           ptr == CASE r.status = "cached" -> k.options
                    [] r.status = "ok" -> Len(optHeap) + 1
                    [] OTHER -> Nil
       IN  /\ optHeap' = IF r.status = "ok" THEN Append(optHeap, r.options) ELSE optHeap
           /\ ctxObj' = IF r.status = "ok" THEN StoreOptions(ctxObj, addr, ptr) ELSE ctxObj
           /\ Outcome(t, r.status)
           /\ ret' = [op |-> "KubectlOptions", t |-> t, arg |-> addr,
                      status |-> r.status, ctx |-> NoCtx, ptr |-> ptr,
                      log |-> r.log,
                      msg |-> IF r.status = "aborted" THEN r.log[Len(r.log)] ELSE ""]
           /\ hist' = [hist EXCEPT ![addr] =
                          [Logged(@, r.log, r.status) EXCEPT
                              !.opts = IF ptr # Nil THEN @ \cup {ptr} ELSE @]]
    /\ ncalls' = ncalls + 1
    /\ UNCHANGED <<built, contexts, kubeconfig, clientHeap, held, flowVars, auxVars>>

\* One run of KubernetesClient on the receiver copy k: the inner
\* k.KubectlOptions(t), then KubernetesClientFromOptions on its result.
KubernetesClientRun(k, file, heap, failAt) ==
    LET inner == KubectlOptionsRun(k, file, failAt)
        options == IF inner.status = "cached" THEN heap[k.options] ELSE inner.options
        rest == IF failAt > Len(inner.log) THEN failAt - Len(inner.log) ELSE 0
        c == KubernetesClientFromOptions(options, file, rest)
    IN  IF k.client # Nil
        THEN [status |-> "cached", inner |-> "none", options |-> NoOptions,
              config |-> NoOptions, log |-> <<>>]
        ELSE IF inner.status \in {"aborted", "panic"}
        THEN [status |-> inner.status, inner |-> inner.status, options |-> NoOptions,
              config |-> NoOptions, log |-> inner.log]
        ELSE [status |-> c.status, inner |-> inner.status, options |-> inner.options,
              config |-> c.config, log |-> inner.log \o c.log]

KubernetesClient(t, failAt) ==
    /\ CanRun(t) /\ held[t] # NoCtx /\ ncalls < MaxCalls
    /\ failAt <= Len(KubernetesClientRun(ctxObj[held[t]], kubeconfig, optHeap, 0).log)
    /\ LET addr == held[t]
           k == ctxObj[addr]
           r == KubernetesClientRun(k, kubeconfig, optHeap, failAt)
           optr == IF r.inner = "ok" THEN Len(optHeap) + 1 ELSE Nil
           ptr == CASE r.status = "cached" -> k.client
                    [] r.status = "ok" -> Len(clientHeap) + 1
                    [] OTHER -> Nil
           stored == IF r.inner = "ok" THEN StoreOptions(ctxObj, addr, optr) ELSE ctxObj
       IN  /\ optHeap' = IF r.inner = "ok" THEN Append(optHeap, r.options) ELSE optHeap
           /\ clientHeap' = IF r.status = "ok" THEN Append(clientHeap, r.config) ELSE clientHeap
           /\ ctxObj' = IF r.status = "ok" THEN StoreClient(stored, addr, ptr) ELSE stored
           /\ Outcome(t, r.status)
           /\ ret' = [op |-> "KubernetesClient", t |-> t, arg |-> addr,
                      status |-> r.status, ctx |-> NoCtx, ptr |-> ptr,
                      log |-> r.log,
                      msg |-> IF r.status = "aborted" THEN r.log[Len(r.log)] ELSE ""]
           /\ hist' = [hist EXCEPT ![addr] =
                          [Logged(@, r.log, r.status) EXCEPT
                              !.clients = IF ptr # Nil THEN @ \cup {ptr} ELSE @]]
    /\ ncalls' = ncalls + 1
    /\ UNCHANGED <<built, contexts, kubeconfig, held, flowVars, auxVars>>

\* Somebody rewrites the kubeconfig file while a test can still read it.
ConfigFileChanges ==
    /\ \E t \in Tests : CanRun(t)
    /\ ncalls < MaxCalls
    /\ kubeconfig' \in FileContents \ {kubeconfig}
    /\ UNCHANGED <<built, contexts, ctxObj, optHeap, clientHeap, held, tstate,
                   crashed, ncalls, ret, hist, flowVars, auxVars>>

EnvNext ==
    \/ \E t \in Tests, name \in LookupNames : Context(t, name)
    \/ \E t \in Tests : DefaultContext(t)
    \/ \E t \in Tests, failAt \in 0..MaxOps : KubectlOptions(t, failAt)
    \/ \E t \in Tests, failAt \in 0..MaxOps : KubernetesClient(t, failAt)
    \/ ConfigFileChanges

(***************************************************************************)
(* Part II: the connect-inject acceptance tests.  A test function runs the *)
(* cases of its table one after the other (t.Run without t.Parallel); a    *)
(* case is a straight line of steps, and a require that fails ends the     *)
(* case (t.FailNow) while the remaining cases still run.                   *)
(***************************************************************************)
\* attempts one retry.Run makes before its time budget is used up
MaxAttempts == 2


NoCase == 0
NoHelmValues == <<>>
NoHelper == [ClusterGenerator |-> "", Secure |-> FALSE, AutoEncrypt |-> FALSE,
             ReleaseName |-> "", AdditionalHelmValues |-> NoHelmValues]
NoPod == ""
NoPoll == [step |-> "", tries |-> 0, failed |-> FALSE, errs |-> 0]

\* TestConnectInject's table
InjectCases ==
    <<[name |-> "Helm install without secure or auto-encrypt",
       clusterGen |-> "NewHelmCluster", releaseName |-> "random",
       secure |-> FALSE, autoEncrypt |-> FALSE],
      [name |-> "Helm install with secure",
       clusterGen |-> "NewHelmCluster", releaseName |-> "random",
       secure |-> TRUE, autoEncrypt |-> FALSE],
      [name |-> "Helm install with secure and auto-encrypt",
       clusterGen |-> "NewHelmCluster", releaseName |-> "random",
       secure |-> TRUE, autoEncrypt |-> TRUE],
      [name |-> "CLI install without secure or auto-encrypt",
       clusterGen |-> "NewCLICluster", releaseName |-> "CLIReleaseName",
       secure |-> FALSE, autoEncrypt |-> FALSE],
      [name |-> "CLI install with secure",
       clusterGen |-> "NewCLICluster", releaseName |-> "CLIReleaseName",
       secure |-> TRUE, autoEncrypt |-> FALSE],
      [name |-> "CLI install with secure and auto-encrypt",
       clusterGen |-> "NewCLICluster", releaseName |-> "CLIReleaseName",
       secure |-> TRUE, autoEncrypt |-> TRUE]>>

\* the zero value of TestConnectInjectOnUpgrade's TestCase
ZeroTestCase == [secure |-> FALSE, autoEncrypt |-> FALSE, helmValues |-> NoHelmValues]

\* TestConnectInjectOnUpgrade's table
UpgradeCases ==
    <<[name |-> "Helm upgrade changes nothing",
       clusterGen |-> "NewHelmCluster", releaseName |-> "random",
       initial |-> ZeroTestCase, upgrade |-> ZeroTestCase],
      [name |-> "CLI upgrade changes nothing",
       clusterGen |-> "NewCLICluster", releaseName |-> "CLIReleaseName",
       initial |-> ZeroTestCase, upgrade |-> ZeroTestCase]>>

\* TestConnectInject_CleanupKilledPods' table
CleanupCases ==
    <<[secure |-> FALSE, autoEncrypt |-> FALSE],
      [secure |-> TRUE, autoEncrypt |-> FALSE],
      [secure |-> TRUE, autoEncrypt |-> TRUE]>>

\* TestConnectInject_RestartConsulClients has no table: its body is the one
\* case
RestartCases == <<[name |-> "TestConnectInject_RestartConsulClients"]>>

TestFunctions ==
    {"TestConnectInject", "TestConnectInjectOnUpgrade",
     "TestConnectInject_CleanupKilledPods",
     "TestConnectInject_RestartConsulClients"}

Cases(f) ==
    CASE f = "TestConnectInject" -> InjectCases
      [] f = "TestConnectInjectOnUpgrade" -> UpgradeCases
      [] f = "TestConnectInject_CleanupKilledPods" -> CleanupCases
      [] f = "TestConnectInject_RestartConsulClients" -> RestartCases

\* a table that is a map is ranged over in any order, a slice in its order
IsMapTable(f) == f \in {"TestConnectInject", "TestConnectInjectOnUpgrade"}

\* Script with the upgrade test's Upgrade moved before its first
\* TestInstallation
ScriptUpgradeUnverified(f) ==
    CASE f = "TestConnectInject" ->
            <<"Setup", "Install", "TestInstallation">>
      [] f = "TestConnectInjectOnUpgrade" ->
            <<"Setup", "Install", "SetUpgrade", "Upgrade", "TestInstallation",
              "TestInstallation">>
      [] f = "TestConnectInject_CleanupKilledPods" ->
            <<"Setup", "NewHelmCluster", "Create", "DeployKustomize",
              "SetupConsulClient", "PollRegistered", "KubectlOptions",
              "ListPods", "RequireOnePod", "DeletePod", "PollDeregistered">>
      [] f = "TestConnectInject_RestartConsulClients" ->
            <<"Setup", "NewHelmCluster", "Create", "DeployServer", "DeployClient",
              "CheckBeforeRestart", "RolloutRestart", "RolloutStatus",
              "CheckAfterRestart">>

\* the steps of one case of each test function, in program order
Script(f) ==
    CASE f = "TestConnectInject" ->
            <<"Setup", "Install", "TestInstallation">>
      [] f = "TestConnectInjectOnUpgrade" ->
            <<"Setup", "Install", "TestInstallation", "SetUpgrade", "Upgrade",
              "TestInstallation">>
      [] f = "TestConnectInject_CleanupKilledPods" ->
            <<"Setup", "NewHelmCluster", "Create", "DeployKustomize",
              "SetupConsulClient", "PollRegistered", "KubectlOptions",
              "ListPods", "RequireOnePod", "DeletePod", "PollDeregistered">>
      [] f = "TestConnectInject_RestartConsulClients" ->
            <<"Setup", "NewHelmCluster", "Create", "DeployServer", "DeployClient",
              "CheckBeforeRestart", "RolloutRestart", "RolloutStatus",
              "CheckAfterRestart">>

\* the steps that are a retry.Run
PollSteps == {"PollRegistered", "PollDeregistered"}

\* the steps that are a CheckStaticServerConnectionSuccessful
CheckSteps == {"CheckBeforeRestart", "CheckAfterRestart"}

\* the steps whose arguments include ctx.KubectlOptions(t)
OptionsSteps ==
    {"DeployKustomize", "KubectlOptions", "DeployServer", "DeployClient",
     "CheckBeforeRestart", "RolloutRestart", "RolloutStatus", "CheckAfterRestart"}

\* ConnectionURL with the branches of the second check swapped
ConnectionURLSwappedAfterRestart(step, tp) ==
    IF tp = (step = "CheckBeforeRestart")
    THEN "http://static-server"
    ELSE "http://localhost:1234"

\* the URL a connectivity check is given: both checks branch alike on
\* cfg.EnableTransparentProxy
ConnectionURL(step, tp) ==
    IF tp THEN "http://static-server" ELSE "http://localhost:1234"

\* the steps that cannot fail: cfg/ctx/struct literals and field assignments
\* (DefaultContext cannot fail on a constructed registry)
Fallible(step) == step \notin {"Setup", "SetUpgrade"}

\* the steps that are one call of a framework helper that is given t and
\* hands back no error
HelperSteps ==
    {"NewHelmCluster", "Create", "DeployKustomize", "SetupConsulClient",
     "DeployServer", "DeployClient", "CheckBeforeRestart", "RolloutRestart",
     "RolloutStatus", "CheckAfterRestart"}

\* a framework helper that fails fails the test it was given and ends it:
\* the error reaches the boundary of the test case
HelperContinue(step, ok) == ok

\* Continue with the error of Install and Upgrade dropped
ContinueAfterInstallError(step, ok) == ok \/ step \in {"Install", "Upgrade"}

\* require.NoError(t, err) and its kin: the case goes on only without error
Continue(step, ok) == ok

\* whether the case goes on after a step
Proceeds(step, ok) ==
    IF step \in HelperSteps THEN HelperContinue(step, ok) ELSE Continue(step, ok)

\* the ConnectHelper literal of a case
NewHelper(f, c) ==
    CASE f = "TestConnectInject" ->
            [ClusterGenerator |-> c.clusterGen, Secure |-> c.secure,
             AutoEncrypt |-> c.autoEncrypt, ReleaseName |-> c.releaseName,
             AdditionalHelmValues |-> NoHelmValues]
      [] f = "TestConnectInjectOnUpgrade" ->
            [ClusterGenerator |-> c.clusterGen, Secure |-> c.initial.secure,
             AutoEncrypt |-> c.initial.autoEncrypt, ReleaseName |-> c.releaseName,
             AdditionalHelmValues |-> NoHelmValues]
      [] OTHER -> NoHelper

\* connHelper.Secure = c.upgrade.secure, and the two assignments after it
SetUpgrade(h, c) ==
    [h EXCEPT !.Secure = c.upgrade.secure,
              !.AutoEncrypt = c.upgrade.autoEncrypt,
              !.AdditionalHelmValues = c.upgrade.helmValues]

(***************************************************************************)
(* The Consul catalog as the polls see it.  A service instance is known by *)
(* its ServiceID, "<pod name>-<service name>", and its health.             *)
(***************************************************************************)
\* pod names; the first is a prefix of the second
Pods == {"static-client-7f", "static-client-7f9"}

Services == <<"static-client", "static-client-sidecar-proxy">>

\* the instances that may be registered under a service name
Instances ==
    {[pod |-> "static-client-7f", healthy |-> TRUE],
     [pod |-> "static-client-7f", healthy |-> FALSE],
     [pod |-> "static-client-7f9", healthy |-> TRUE]}

\* what one Catalog().Service(name, "", nil) gives: an error and no
\* instances, or the instances registered under the name
Observations ==
    {[err |-> TRUE, instances |-> {}]} \cup
    [err : {FALSE}, instances : SUBSET Instances]

\* strings.Contains(a, b) on pod names
PodNameContains(a, b) ==
    \/ a = b
    \/ a = "static-client-7f9" /\ b = "static-client-7f"

\* strings.Contains(instance.ServiceID, podName): the service names hold no
\* pod name, so the pod part of the identifier decides
Contains(instance, name) == PodNameContains(instance.pod, name)

\* RegisteredFails with "len(instances) > 1" for "len(instances) != 1"
RegisteredFailsOnlyWhenMany(o) == Cardinality(o.instances) > 1

\* RegisteredFails with "len(instances) < 1" for "len(instances) != 1"
RegisteredFailsOnlyWhenNone(o) == Cardinality(o.instances) < 1

\* whether the closure of the first retry.Run records a failure on what one
\* lookup gave
RegisteredFails(o) == Cardinality(o.instances) # 1

\* DeregisteredFails with "instance.ServiceID == podName-<service>" for
\* strings.Contains(instance.ServiceID, podName)
DeregisteredFailsOnExactName(o, name) == \E i \in o.instances : i.pod = name

\* whether the closure of the second retry.Run records a failure on what
\* one lookup gave
DeregisteredFails(o, name) == \E i \in o.instances : Contains(i, name)

\* Attempt with r.Check(err) left out: a lookup that failed gave no
\* instances and the closure goes on
RECURSIVE AttemptWithoutCheck(_, _, _, _)
AttemptWithoutCheck(step, obs, name, i) ==
    IF i > Len(Services)
    THEN [failed |-> FALSE, seen |-> <<>>]
    ELSE LET rest == AttemptWithoutCheck(step, obs, name, i + 1)
             bad == IF step = "PollRegistered"
                    THEN Cardinality(obs[i].instances) # 1
                    ELSE \E inst \in obs[i].instances : Contains(inst, name)
         IN  [failed |-> bad \/ rest.failed, seen |-> <<obs[i]>> \o rest.seen]

\* One attempt of a poll's closure over the lookups obs (one per service):
\* r.Check(err) ends the attempt at the first lookup error, r.Errorf marks
\* the attempt failed and goes on.  Gives the lookups made and the mark.
RECURSIVE Attempt(_, _, _, _)
Attempt(step, obs, name, i) ==
    IF i > Len(Services)
    THEN [failed |-> FALSE, seen |-> <<>>]
    ELSE IF obs[i].err
    THEN [failed |-> TRUE, seen |-> <<obs[i]>>]
    ELSE LET rest == Attempt(step, obs, name, i + 1)
             bad == IF step = "PollRegistered"
                    THEN RegisteredFails(obs[i])
                    ELSE DeregisteredFails(obs[i], name)
         IN  [failed |-> bad \/ rest.failed, seen |-> <<obs[i]>> \o rest.seen]

\* whether an attempt ended at a lookup error (r.Check)
LookupError(lookups) == \E i \in 1..Len(lookups) : lookups[i].err

\* Exhausted with a budget of one attempt
ExhaustedAtFirst(n) == n >= 1

\* whether retry.Run gives up after the n-th attempt failed: its time budget
\* is used up
Exhausted(n) == n >= MaxAttempts

(***************************************************************************)
(* Running the cases.                                                      *)
(***************************************************************************)
\* whether ctx.KubectlOptions(t) on the default context reads the Namespace
\* of a nil context entry
OptionsPanic ==
    KubectlOptionsRun(ctxObj[contexts[DefaultContextName]], kubeconfig, 0).status
        = "panic"

FlowInit ==
    /\ fn \in TestFunctions
    /\ todo = DOMAIN Cases(fn)
    /\ cur = NoCase
    /\ pc = 0
    /\ helper = NoHelper
    /\ trace = <<>>
    /\ verdict = <<>>
    /\ attempt = 0
    /\ seen = <<>>
    /\ podName = NoPod
    /\ deletes = 0
    /\ poll = NoPoll
    /\ tproxy \in BOOLEAN
    /\ urls = <<>>

\* t.Run(name, ...) for the next case of the range loop
StartCase(c) ==
    /\ ~crashed
    /\ cur = NoCase
    /\ c \in todo
    /\ IsMapTable(fn) \/ \A d \in todo : c <= d
    /\ cur' = c
    /\ todo' = todo \ {c}
    /\ pc' = 1
    /\ helper' = NoHelper
    /\ trace' = <<>>
    /\ attempt' = 0
    /\ seen' = <<>>
    /\ podName' = NoPod
    /\ deletes' = 0
    /\ poll' = NoPoll
    /\ urls' = <<>>
    /\ UNCHANGED <<fn, verdict, tproxy, envVars, auxVars>>

\* where the case goes after a step: on, to its end, or out by t.FailNow
Advance(step, ok) ==
    IF ~Proceeds(step, ok)
    THEN /\ verdict' = verdict @@ (cur :> "fail")
         /\ cur' = NoCase
         /\ pc' = 0
    ELSE IF pc = Len(Script(fn))
    THEN /\ verdict' = verdict @@ (cur :> IF ok THEN "pass" ELSE "fail")
         /\ cur' = NoCase
         /\ pc' = 0
    ELSE /\ verdict' = verdict
         /\ cur' = cur
         /\ pc' = pc + 1

\* One step of the running case that is not a poll, with its outcome.
Step(ok, pod) ==
    /\ ~crashed
    /\ cur # NoCase
    /\ LET step == Script(fn)[pc]
       IN  /\ step \notin PollSteps
           /\ ok \/ Fallible(step)
           /\ ok => ~(step \in OptionsSteps /\ OptionsPanic)
           /\ pod = IF step = "RequireOnePod" /\ ok THEN pod ELSE podName
           /\ step = "RequireOnePod" /\ ok => pod \in Pods
           /\ trace' = Append(trace, [step |-> step, ok |-> ok])
           /\ helper' = CASE step = "Setup" -> NewHelper(fn, Cases(fn)[cur])
                          [] step = "SetUpgrade" -> SetUpgrade(helper, Cases(fn)[cur])
                          [] OTHER -> helper
           /\ podName' = pod
           /\ deletes' = IF step = "DeletePod" THEN deletes + 1 ELSE deletes
           /\ urls' = IF step \in CheckSteps
                      THEN Append(urls, ConnectionURL(step, tproxy))
                      ELSE urls
           /\ Advance(step, ok)
    /\ UNCHANGED <<fn, todo, attempt, seen, poll, tproxy, envVars, auxVars>>

\* ctx.KubectlOptions(t), evaluated for the running step, panics: the test
\* binary dies with the case unfinished and the remaining cases not run
StepPanics ==
    /\ ~crashed
    /\ cur # NoCase
    /\ Script(fn)[pc] \in OptionsSteps
    /\ OptionsPanic
    /\ crashed' = TRUE
    /\ trace' = Append(trace, [step |-> Script(fn)[pc], ok |-> FALSE])
    /\ UNCHANGED <<built, contexts, ctxObj, kubeconfig, optHeap, clientHeap, held,
                   tstate, ncalls, ret, hist>>
    /\ UNCHANGED <<fn, todo, cur, pc, helper, verdict, attempt, seen, podName,
                   deletes, poll, tproxy, urls, auxVars>>

\* One attempt of the running retry.Run: no failure recorded ends the poll,
\* a failure on the last attempt ends the case, any other failure retries.
PollAttempt(obs) ==
    /\ ~crashed
    /\ cur # NoCase
    /\ LET step == Script(fn)[pc]
           r == Attempt(step, obs, podName, 1)
       IN  /\ step \in PollSteps
           /\ Len(r.seen) = Len(obs) \/ \A i \in (Len(r.seen) + 1)..Len(obs) : obs[i].err
           /\ seen' = r.seen
           /\ poll' = [step |-> step, tries |-> attempt + 1, failed |-> r.failed,
                       errs |-> (IF attempt = 0 THEN 0 ELSE poll.errs) +
                                (IF LookupError(r.seen) THEN 1 ELSE 0)]
           /\ IF ~r.failed
              THEN /\ trace' = Append(trace, [step |-> step, ok |-> TRUE])
                   /\ attempt' = 0
                   /\ Advance(step, TRUE)
              ELSE IF Exhausted(attempt + 1)
              THEN /\ trace' = Append(trace, [step |-> step, ok |-> FALSE])
                   /\ attempt' = 0
                   /\ Advance(step, FALSE)
              ELSE /\ attempt' = attempt + 1
                   /\ UNCHANGED <<trace, verdict, cur, pc>>
    /\ UNCHANGED <<fn, todo, helper, podName, deletes, tproxy, urls, envVars, auxVars>>

FlowNext ==
    \/ \E c \in 1..Len(Cases(fn)) : StartCase(c)
    \/ \E ok \in BOOLEAN, pod \in Pods \cup {NoPod} : Step(ok, pod)
    \/ StepPanics
    \/ \E obs \in [1..Len(Services) -> Observations] : PollAttempt(obs)

(***************************************************************************)
(* The specifications.  Spec: a test uses the environment (Part I), no     *)
(* test function runs.  TestSpec: a test function runs its cases (Part     *)
(* II) on a registry nobody touches.  HelperSpec: one ConnectHelper is     *)
(* driven call by call.  SharedSpec: two test cases call the accessors of  *)
(* one registered context at the same time.                                *)
(***************************************************************************)
FlowIdle ==
    /\ fn = "none"
    /\ todo = {}
    /\ cur = NoCase
    /\ pc = 0
    /\ helper = NoHelper
    /\ trace = <<>>
    /\ verdict = <<>>
    /\ attempt = 0
    /\ seen = <<>>
    /\ podName = NoPod
    /\ deletes = 0
    /\ poll = NoPoll
    /\ tproxy = FALSE
    /\ urls = <<>>

\* the kubeconfig files of a test run: the current context has an entry, or
\* the file names a current context it has no entry for
RunFiles ==
    {[CurrentContext |-> "kc1", Contexts |-> ("kc1" :> [Namespace |-> ""])],
     [CurrentContext |-> "kc1", Contexts |-> <<>>]}

EnvIdle ==
    /\ built = [ctor |-> "FromConfig", EnableMultiCluster |-> FALSE]
    /\ contexts = NewKubernetesEnvironmentFromContext("ctx1")
    /\ ctxObj = ("ctx1" :> NewContext("", "", ""))
    /\ kubeconfig \in RunFiles
    /\ optHeap = <<>>
    /\ clientHeap = <<>>
    /\ held = [t \in Tests |-> NoCtx]
    /\ tstate = [t \in Tests |-> "running"]
    /\ crashed = FALSE
    /\ ncalls = 0
    /\ ret = NoRet
    /\ hist = [a \in DOMAIN ctxObj |-> NoHist]

(***************************************************************************)
(* The ConnectHelper driven call by call.  Its methods are not part of the *)
(* test file; they follow the state machine of the orchestrator,           *)
(* Uninstalled -> Installed -> (Upgraded)*: Install creates the release,   *)
(* Upgrade reapplies the overrides to the release in place, and Install on *)
(* a helper that has installed fails fast.  An error ends the test case    *)
(* (require.NoError), so no call follows one.                              *)
(***************************************************************************)
\* calls made on one helper
MaxHelperCalls == 3

NoRelease == [state |-> "Uninstalled", installs |-> 0, upgrades |-> 0,
              secure |-> FALSE, autoEncrypt |-> FALSE]

Callers == {"g1", "g2"}

NoFrame == [pc |-> "idle", op |-> "none", k |-> NewContext("", "", ""),
            ptr |-> Nil, status |-> "none", got |-> {}]

AuxIdle ==
    /\ release = NoRelease
    /\ caller = [g \in Callers |-> NoFrame]

\* InstallAllowed without the precondition: Install installs again
InstallAlwaysAllowed(r) == TRUE

\* Install is for a helper that has installed nothing
InstallAllowed(r) == r.state = "Uninstalled"

\* Upgrade is safe only after a prior successful Install
UpgradeAllowed(r) == r.state \in {"Installed", "Upgraded"}

\* the test case is running: no call returned an error yet
HelperAlive ==
    /\ Len(trace) < MaxHelperCalls
    /\ \A i \in 1..Len(trace) : trace[i].ok

\* the release after the helper's overrides were applied to it
Applied(r, h, state) ==
    [r EXCEPT !.state = state, !.secure = h.Secure, !.autoEncrypt = h.AutoEncrypt]

HelperInit ==
    /\ EnvIdle
    /\ fn = "none"
    /\ todo = {}
    /\ cur = NoCase
    /\ pc = 0
    /\ helper \in {NewHelper("TestConnectInject", InjectCases[c]) :
                      c \in DOMAIN InjectCases}
    /\ trace = <<>>
    /\ verdict = <<>>
    /\ attempt = 0
    /\ seen = <<>>
    /\ podName = NoPod
    /\ deletes = 0
    /\ poll = NoPoll
    /\ tproxy = FALSE
    /\ urls = <<>>
    /\ AuxIdle

\* connHelper.Install(): ok is whether it returned without error
HelperInstall(ok) ==
    /\ HelperAlive
    /\ ok => InstallAllowed(release)
    /\ trace' = Append(trace, [step |-> "Install", ok |-> ok])
    /\ release' = IF ok
                  THEN [Applied(release, helper, "Installed") EXCEPT !.installs = @ + 1]
                  ELSE release
    /\ UNCHANGED <<fn, todo, cur, pc, helper, verdict, attempt, seen, podName,
                   deletes, poll, tproxy, urls, caller, envVars>>

\* connHelper.Upgrade()
HelperUpgrade(ok) ==
    /\ HelperAlive
    /\ ok => UpgradeAllowed(release)
    /\ trace' = Append(trace, [step |-> "Upgrade", ok |-> ok])
    /\ release' = IF ok
                  THEN [Applied(release, helper, "Upgraded") EXCEPT !.upgrades = @ + 1]
                  ELSE release
    /\ UNCHANGED <<fn, todo, cur, pc, helper, verdict, attempt, seen, podName,
                   deletes, poll, tproxy, urls, caller, envVars>>

\* connHelper.TestInstallation()
HelperTestInstallation(ok) ==
    /\ HelperAlive
    /\ ok => release.state # "Uninstalled"
    /\ trace' = Append(trace, [step |-> "TestInstallation", ok |-> ok])
    /\ UNCHANGED <<fn, todo, cur, pc, helper, verdict, attempt, seen, podName,
                   deletes, poll, tproxy, urls, auxVars, envVars>>

\* the test flips the flags of the helper between two phases
HelperSetFlags(secure, autoEncrypt) ==
    /\ HelperAlive
    /\ helper' = [helper EXCEPT !.Secure = secure, !.AutoEncrypt = autoEncrypt]
    /\ helper' # helper
    /\ UNCHANGED <<fn, todo, cur, pc, trace, verdict, attempt, seen, podName,
                   deletes, poll, tproxy, urls, auxVars, envVars>>

HelperNext ==
    \/ \E ok \in BOOLEAN : HelperInstall(ok)
    \/ \E ok \in BOOLEAN : HelperUpgrade(ok)
    \/ \E ok \in BOOLEAN : HelperTestInstallation(ok)
    \/ \E secure, autoEncrypt \in BOOLEAN : HelperSetFlags(secure, autoEncrypt)

HelperSpec == HelperInit /\ [][HelperNext]_vars

(***************************************************************************)
(* Test cases that call the accessors of one registered context at the     *)
(* same time.  A call is three steps: the receiver is copied into the      *)
(* callee's frame (the methods have value receivers), the body runs on the *)
(* copy, and the result is handed back.  The steps of different callers    *)
(* interleave in any order.                                                *)
(***************************************************************************)
\* the context both callers got from DefaultContext
SharedCtx == contexts[DefaultContextName]

SharedInit ==
    /\ InitFromContext
    /\ kubeconfig \in RunFiles
    /\ optHeap = <<>>
    /\ clientHeap = <<>>
    /\ held = [t \in Tests |-> NoCtx]
    /\ tstate = [t \in Tests |-> "running"]
    /\ crashed = FALSE
    /\ ncalls = 0
    /\ ret = NoRet
    /\ hist = [a \in DOMAIN ctxObj |-> NoHist]
    /\ FlowIdle
    /\ AuxIdle

\* g calls op on the shared context: the receiver is copied
CallEnter(g, op) ==
    /\ ~crashed
    /\ caller[g].pc = "idle"
    /\ ncalls < MaxCalls
    /\ caller' = [caller EXCEPT ![g] =
                     [@ EXCEPT !.pc = "entered", !.op = op, !.k = ctxObj[SharedCtx],
                               !.ptr = Nil, !.status = "none"]]
    /\ ncalls' = ncalls + 1
    /\ UNCHANGED <<built, contexts, ctxObj, kubeconfig, optHeap, clientHeap, held,
                   tstate, crashed, ret, hist, release, flowVars>>

\* the body of KubectlOptions runs on g's copy of the receiver
BodyKubectlOptions(g, failAt) ==
    /\ ~crashed
    /\ caller[g].pc = "entered"
    /\ caller[g].op = "KubectlOptions"
    /\ failAt <= Len(KubectlOptionsRun(caller[g].k, kubeconfig, 0).log)
    /\ LET k == caller[g].k
           r == KubectlOptionsRun(k, kubeconfig, failAt)
           ptr == CASE r.status = "cached" -> k.options
                    [] r.status = "ok" -> Len(optHeap) + 1
                    [] OTHER -> Nil
       IN  /\ optHeap' = IF r.status = "ok" THEN Append(optHeap, r.options) ELSE optHeap
           /\ ctxObj' = IF r.status = "ok"
                        THEN StoreOptions(ctxObj, SharedCtx, ptr)
                        ELSE ctxObj
           /\ crashed' = (r.status = "panic")
           /\ caller' = [caller EXCEPT ![g] =
                            [@ EXCEPT !.pc = IF ptr # Nil THEN "returned" ELSE "failed",
                                      !.k = IF r.status = "ok"
                                            THEN [k EXCEPT !.options = ptr]
                                            ELSE k,
                                      !.ptr = ptr,
                                      !.status = r.status,
                                      !.got = IF ptr # Nil THEN @ \cup {ptr} ELSE @]]
    /\ UNCHANGED <<built, contexts, kubeconfig, clientHeap, held, tstate, ncalls,
                   ret, hist, release, flowVars>>

\* the body of KubernetesClient runs on g's copy of the receiver
BodyKubernetesClient(g, failAt) ==
    /\ ~crashed
    /\ caller[g].pc = "entered"
    /\ caller[g].op = "KubernetesClient"
    /\ failAt <= Len(KubernetesClientRun(caller[g].k, kubeconfig, optHeap, 0).log)
    /\ LET k == caller[g].k
           r == KubernetesClientRun(k, kubeconfig, optHeap, failAt)
           optr == IF r.inner = "ok" THEN Len(optHeap) + 1 ELSE Nil
           ptr == CASE r.status = "cached" -> k.client
                    [] r.status = "ok" -> Len(clientHeap) + 1
                    [] OTHER -> Nil
           stored == IF r.inner = "ok" THEN StoreOptions(ctxObj, SharedCtx, optr)
                                       ELSE ctxObj
       IN  /\ optHeap' = IF r.inner = "ok" THEN Append(optHeap, r.options) ELSE optHeap
           /\ clientHeap' = IF r.status = "ok" THEN Append(clientHeap, r.config)
                                               ELSE clientHeap
           /\ ctxObj' = IF r.status = "ok" THEN StoreClient(stored, SharedCtx, ptr)
                                           ELSE stored
           /\ crashed' = (r.status = "panic")
           /\ caller' = [caller EXCEPT ![g] =
                            [@ EXCEPT !.pc = IF ptr # Nil THEN "returned" ELSE "failed",
                                      !.k = IF r.status = "ok"
                                            THEN [k EXCEPT !.options = optr,
                                                           !.client = ptr]
                                            ELSE k,
                                      !.ptr = ptr,
                                      !.status = r.status]]
    /\ UNCHANGED <<built, contexts, kubeconfig, held, tstate, ncalls, ret, hist,
                   release, flowVars>>

\* the result is with the caller, the frame and its copy are gone
CallReturn(g) ==
    /\ ~crashed
    /\ caller[g].pc = "returned"
    /\ caller' = [caller EXCEPT ![g] = [NoFrame EXCEPT !.got = caller[g].got]]
    /\ UNCHANGED <<envVars, release, flowVars>>

SharedNext ==
    \/ \E g \in Callers, op \in {"KubectlOptions", "KubernetesClient"} : CallEnter(g, op)
    \/ \E g \in Callers, failAt \in 0..MaxOps : BodyKubectlOptions(g, failAt)
    \/ \E g \in Callers, failAt \in 0..MaxOps : BodyKubernetesClient(g, failAt)
    \/ \E g \in Callers : CallReturn(g)

SharedSpec == SharedInit /\ [][SharedNext]_vars

Init == EnvInit /\ FlowIdle /\ AuxIdle

Next == EnvNext

Spec == Init /\ [][Next]_vars

TestInit == EnvIdle /\ FlowInit /\ AuxIdle

TestNext == FlowNext

TestSpec == TestInit /\ [][TestNext]_vars

(***************************************************************************)
(* The claims about the environment (checked under Spec).                  *)
(***************************************************************************)
\* C1: for every registered context, all KubectlOptions calls return the
\* same options object, and the namespace resolution (the load of the
\* config file) runs at most once per context, whatever the calls.
C1_SameOptionsResolvedOnce ==
    \A a \in DOMAIN hist :
        /\ Cardinality(hist[a].opts) <= 1
        /\ hist[a].resolutions <= 1

\* C2: no drift: for a context constructed with an empty namespace, every
\* KubectlOptions call returns the namespace the first call resolved, even
\* when the config file changed between the calls.
C2_NoNamespaceDrift ==
    \A a \in DOMAIN hist :
        ctxObj[a].namespace = "" =>
            \A p, q \in hist[a].opts :
                optHeap[p].Namespace = optHeap[q].Namespace

\* C3: for every registered context, the API client is constructed exactly
\* once over any sequence of KubernetesClient calls: every call returns the
\* same client and the client configuration is loaded at most once.
C3_ClientBuiltOnce ==
    \A a \in DOMAIN hist :
        /\ hist[a].built <= 1
        /\ hist[a].cfgLoads <= 1
        /\ Cardinality(hist[a].clients) <= 1

\* the namespace the documentation promises for a context's fields and a
\* config file: the explicit one, else the active context's recorded one,
\* else "default"
ExpectedNamespace(k, file) ==
    LET active == IF k.kubeContextName # "" THEN k.kubeContextName
                  ELSE file.CurrentContext
        recorded == IF active \in DOMAIN file.Contexts
                    THEN file.Contexts[active].Namespace ELSE ""
    IN  IF k.namespace # "" THEN k.namespace
        ELSE IF recorded # "" THEN recorded
        ELSE NamespaceDefault

\* a step in which the test calls KubectlOptions and no external operation
\* fails
KubectlOptionsCalled ==
    /\ ncalls' = ncalls + 1
    /\ ret'.op = "KubectlOptions"
    /\ ret'.status # "aborted"

\* C4: for every explicit namespace, explicit context name and config file,
\* KubectlOptions gives the explicit namespace without loading the file,
\* else the recorded namespace of the active context (the explicit context
\* name, else the file's current-context), else "default".
C4_NamespaceResolution ==
    [][KubectlOptionsCalled =>
          /\ ret'.status = "ok"
          /\ optHeap'[ret'.ptr].Namespace = ExpectedNamespace(ctxObj[ret'.arg], kubeconfig)
          /\ ctxObj[ret'.arg].namespace # "" => ret'.log = <<>>]_vars

\* C4, where the active context has an entry in the file: the code resolves
\* the namespace as documented
C4_ResolutionWhereEntryExists ==
    [][KubectlOptionsCalled /\ ret'.status = "ok" =>
          /\ optHeap'[ret'.ptr].Namespace = ExpectedNamespace(ctxObj[ret'.arg], kubeconfig)
          /\ ctxObj[ret'.arg].namespace # "" => ret'.log = <<>>]_vars

\* C5: Context(name) with an unregistered name fails the calling test with
\* "requested context not found" and hands no context back; with a
\* registered name it returns the context registered under that name.
C5_ContextLookup ==
    ret.op = "Context" =>
        IF ret.arg \in DOMAIN contexts
        THEN /\ ret.status = "ok"
             /\ ret.ctx = contexts[ret.arg]
        ELSE /\ ret.status = "aborted"
             /\ ret.ctx = NoCtx
             /\ ret.msg = "requested context not found"
             /\ tstate[ret.t] = "failed"

C5_Witness ==
    /\ ret.op = "Context"
    /\ ret.arg = "nonexistent"
    /\ ret.status = "aborted"

\* C6: the registry always holds "default", holds "secondary" exactly when
\* it was built from a configuration with multi-cluster enabled, no call
\* changes its map, and DefaultContext never fails and returns what
\* Context("default") returns.
C6_RegistryInvariant ==
    /\ [](/\ DefaultContextName \in DOMAIN contexts
          /\ SecondaryContextName \in DOMAIN contexts <=>
                (built.ctor = "FromConfig" /\ built.EnableMultiCluster)
          /\ ret.op = "DefaultContext" =>
                /\ ret.status = "ok"
                /\ ret.ctx = Lookup(contexts, DefaultContextName).ctx)
    /\ [][contexts' = contexts]_vars

C6_Witness ==
    /\ ret.op = "DefaultContext"
    /\ ret.status = "ok"
    /\ ncalls > 0
    /\ SecondaryContextName \in DOMAIN contexts

\* C7: a context whose active context name has no entry in the config file
\* makes KubectlOptions abort the calling test; the process does not panic.
C7_UnresolvableContextAborts ==
    ret.op = "KubectlOptions" => ret.status # "panic" /\ ~crashed

Accessors == {"KubectlOptions", "KubernetesClient"}

\* C8: an external operation that fails inside KubectlOptions or
\* KubernetesClient ends the calling test there: the failed operation is
\* the last one attempted and was attempted once, nothing is returned, and
\* the failed test makes no further call.
C8_SetupErrorsFatal ==
    /\ [](ret.op \in Accessors /\ ret.status = "aborted" =>
             /\ ret.ptr = Nil
             /\ tstate[ret.t] = "failed"
             /\ ret.log # <<>>
             /\ ret.msg = ret.log[Len(ret.log)]
             /\ CountOp(ret.log, ret.msg) = 1)
    /\ [][\A t \in Tests : tstate[t] = "failed" /\ ret'.t = t => ret' = ret]_vars

C8_Witness ==
    /\ ret.op = "KubernetesClient"
    /\ ret.status = "aborted"
    /\ ret.msg = "NewForConfig"
    /\ tstate[ret.t] = "failed"

(***************************************************************************)
(* The claims about the test cases (checked under TestSpec).               *)
(***************************************************************************)
InstallPhases == {"Install", "Upgrade"}
HelperPhases == InstallPhases \cup {"TestInstallation"}

\* the helper phases executed before position i of the trace
PhasesBefore(i) == {j \in 1..(i - 1) : trace[j].step \in HelperPhases}

\* the position of the helper phase that immediately precedes position i
PrecedingPhase(i) == CHOOSE j \in PhasesBefore(i) : \A k \in PhasesBefore(i) : k <= j

\* C9: TestInstallation begins only after the immediately preceding Install
\* or Upgrade returned without error, and nothing of the case runs after an
\* Install or Upgrade that returned an error.
C9_VerifyOnlyAfterInstall ==
    \A i \in 1..Len(trace) :
        /\ trace[i].step = "TestInstallation" =>
              /\ PhasesBefore(i) # {}
              /\ trace[PrecedingPhase(i)].step \in InstallPhases
              /\ trace[PrecedingPhase(i)].ok
        /\ trace[i].step \in InstallPhases /\ ~trace[i].ok => i = Len(trace)

C9_Witness ==
    /\ fn = "TestConnectInjectOnUpgrade"
    /\ Len(trace) = Len(Script(fn))
    /\ trace[Len(trace)].step = "TestInstallation"
    /\ trace[Len(trace) - 1] = [step |-> "Upgrade", ok |-> TRUE]

\* the last attempt saw one instance of each of the two services
SeenOneOfEach ==
    /\ Len(seen) = Len(Services)
    /\ \A i \in 1..Len(seen) : ~seen[i].err /\ Cardinality(seen[i].instances) = 1

\* C10: the forced pod deletion is issued only after the registration poll
\* succeeded, which it does only on an attempt that saw exactly one instance
\* of static-client and of static-client-sidecar-proxy; a poll that used up
\* its attempts is followed by no deletion.
C10_DeleteOnlyAfterRegistered ==
    /\ deletes > 0 =>
          \E i, j \in 1..Len(trace) :
              /\ i < j
              /\ trace[i] = [step |-> "PollRegistered", ok |-> TRUE]
              /\ trace[j].step = "DeletePod"
    /\ (\E i \in 1..Len(trace) : trace[i] = [step |-> "PollRegistered", ok |-> FALSE])
          => deletes = 0
    /\ (trace # <<>> /\ trace[Len(trace)] = [step |-> "PollRegistered", ok |-> TRUE])
          => SeenOneOfEach

C10_Witness ==
    /\ deletes = 1
    /\ trace[Len(trace)].step = "DeletePod"
    /\ SeenOneOfEach

(***************************************************************************)
(* The claims about the polls (checked under TestSpec).                    *)
(***************************************************************************)
\* the case is at a retry.Run: the next step it takes is an attempt
AtPoll == cur # NoCase /\ ~crashed /\ Script(fn)[pc] \in PollSteps

\* the last step of the trace is a poll that ended with the outcome ok
PollEnded(ok) ==
    /\ trace # <<>>
    /\ trace[Len(trace)].step \in PollSteps
    /\ trace[Len(trace)].ok = ok

C12_LookupErrorRetried ==
    /\ [](/\ poll.step # "" /\ LookupError(seen) => poll.failed
          /\ PollEnded(TRUE) => ~LookupError(seen)
          /\ PollEnded(FALSE) /\ LookupError(seen) => poll.errs <= poll.tries
                                                     /\ poll.tries = MaxAttempts)
    /\ [][AtPoll /\ LookupError(seen') /\ attempt + 1 < MaxAttempts =>
            /\ cur' = cur
            /\ pc' = pc
            /\ trace' = trace
            /\ verdict' = verdict
            /\ AtPoll']_vars

C12_Witness ==
    /\ PollEnded(TRUE)
    /\ poll.errs > 0
    /\ poll.tries > 1
    /\ cur # NoCase

\* for both services the last attempt found no registration whose
\* identifier contains the deleted pod's name
NoneRemain ==
    /\ Len(seen) = Len(Services)
    /\ \A i \in 1..Len(seen) :
          /\ ~seen[i].err
          /\ \A inst \in seen[i].instances : ~Contains(inst, podName)

\* C13: an attempt of the deregistration poll records no failure exactly
\* when, for both services, no registration is left whose identifier
\* contains the deleted pod's name; the poll succeeds only on such an
\* attempt, and only after the pod was deleted.
C13_DeregisteredOnlyWhenGone ==
    /\ poll.step = "PollDeregistered" => (poll.failed <=> ~NoneRemain)
    /\ (PollEnded(TRUE) /\ trace[Len(trace)].step = "PollDeregistered") =>
          NoneRemain /\ deletes > 0 /\ podName # NoPod

C13_Witness ==
    /\ PollEnded(TRUE)
    /\ trace[Len(trace)].step = "PollDeregistered"
    /\ podName = "static-client-7f9"
    /\ \E i \in 1..Len(seen) : seen[i].instances # {}
    /\ poll.tries > 1

\* an instance the last attempt found is not healthy
SeenUnhealthy ==
    \E i \in 1..Len(seen) : \E inst \in seen[i].instances : ~inst.healthy

ChecksRun == {i \in 1..Len(trace) : trace[i].step \in CheckSteps}

\* C15: in TestConnectInject_RestartConsulClients, with and without the
\* transparent proxy: the rollout restart is the step right after a first
\* connectivity check that succeeded, the second connectivity check is the
\* step right after a rollout status that returned (which follows a restart
\* that was issued), and the second check is given the URL the first was
\* given.
C15_RestartOrdering ==
    fn = "TestConnectInject_RestartConsulClients" =>
        /\ \A i \in 1..Len(trace) :
              /\ trace[i].step = "RolloutRestart" =>
                    /\ i > 1
                    /\ trace[i - 1] = [step |-> "CheckBeforeRestart", ok |-> TRUE]
              /\ trace[i].step = "RolloutStatus" =>
                    /\ i > 1
                    /\ trace[i - 1] = [step |-> "RolloutRestart", ok |-> TRUE]
              /\ trace[i].step = "CheckAfterRestart" =>
                    /\ i > 1
                    /\ trace[i - 1] = [step |-> "RolloutStatus", ok |-> TRUE]
        /\ Len(urls) <= Cardinality(ChecksRun)
        /\ \A i, j \in 1..Len(urls) : urls[i] = urls[j]
        /\ \A i \in 1..Len(urls) :
              urls[i] = IF tproxy THEN "http://static-server"
                                  ELSE "http://localhost:1234"

C15_Witness ==
    /\ fn = "TestConnectInject_RestartConsulClients"
    /\ tproxy
    /\ Len(trace) = Len(Script(fn))
    /\ trace[Len(trace)] = [step |-> "CheckAfterRestart", ok |-> TRUE]
    /\ Len(urls) = Cardinality(CheckSteps)

(***************************************************************************)
(* The claims about the cases of a table (checked under TestSpec).         *)
(***************************************************************************)
\* a step of the running (or last) case failed
SomeStepFailed == \E i \in 1..Len(trace) : ~trace[i].ok

\* every case that was started and does not run has its verdict
StartedCasesReported ==
    DOMAIN verdict = (DOMAIN Cases(fn) \ todo) \ {cur}

\* C16: a case with a step that failed (install, upgrade, deploy, the
\* resolution of the options, a poll out of attempts) is over and has the
\* verdict "fail"; the test binary is alive, so the cases not yet started
\* can still start: no failure of a case ends the run.
C16_FailureIsolation ==
    Len(Cases(fn)) > 1 =>
        /\ ~crashed
        /\ StartedCasesReported
        /\ SomeStepFailed =>
              /\ cur = NoCase
              /\ \E c \in DOMAIN verdict : verdict[c] = "fail"

\* what holds of C16: a step that fails by a require (t.FailNow), and not
\* by a panic, ends its case with the verdict "fail" and leaves the run
\* alive
C16_RequireFailuresIsolated ==
    Len(Cases(fn)) > 1 /\ ~crashed =>
        /\ StartedCasesReported
        /\ SomeStepFailed =>
              /\ cur = NoCase
              /\ \E c \in DOMAIN verdict : verdict[c] = "fail"

(***************************************************************************)
(* The claims about the upgrade test (checked under TestSpec).             *)
(***************************************************************************)
\* the phases of the helper the case went through, in order
PhasesRun == SelectSeq(trace, LAMBDA e : e.step \in HelperPhases)

\* the order of the phases in TestConnectInjectOnUpgrade
UpgradePhases == <<"Install", "TestInstallation", "Upgrade", "TestInstallation">>

\* the helper holds the upgrade parameters of the case c
HoldsUpgradeParameters(c) ==
    /\ helper.Secure = c.upgrade.secure
    /\ helper.AutoEncrypt = c.upgrade.autoEncrypt
    /\ helper.AdditionalHelmValues = c.upgrade.helmValues
    /\ helper.ClusterGenerator = c.clusterGen
    /\ helper.ReleaseName = c.releaseName

\* C18: a case of TestConnectInjectOnUpgrade goes through Install,
\* TestInstallation, Upgrade, TestInstallation in this order on the one
\* helper built at its start; Upgrade runs only right after the three
\* fields were assigned, which is right after the first TestInstallation
\* passed, which follows an Install that succeeded; from the assignment on
\* the helper holds the upgrade parameters of the case.
C18_UpgradeSequence ==
    fn = "TestConnectInjectOnUpgrade" =>
        /\ Len(PhasesRun) <= Len(UpgradePhases)
        /\ \A i \in 1..Len(PhasesRun) : PhasesRun[i].step = UpgradePhases[i]
        /\ \A i \in 1..Len(trace) :
              /\ trace[i].step = "Upgrade" =>
                    /\ i > Len(<<"Setup", "Install", "TestInstallation">>)
                    /\ trace[i - 1] = [step |-> "SetUpgrade", ok |-> TRUE]
                    /\ trace[i - 2] = [step |-> "TestInstallation", ok |-> TRUE]
                    /\ trace[i - 3] = [step |-> "Install", ok |-> TRUE]
              /\ trace[i].step = "SetUpgrade" =>
                    /\ i > 1
                    /\ trace[i - 1] = [step |-> "TestInstallation", ok |-> TRUE]
        /\ (cur # NoCase /\ \E i \in 1..Len(trace) : trace[i].step = "SetUpgrade") =>
              HoldsUpgradeParameters(Cases(fn)[cur])
        /\ (cur # NoCase /\ Script(fn)[pc] = "Upgrade") =>
              /\ HoldsUpgradeParameters(Cases(fn)[cur])
              /\ trace[Len(trace)].step = "SetUpgrade"

C18_Witness ==
    /\ fn = "TestConnectInjectOnUpgrade"
    /\ cur # NoCase
    /\ trace # <<>>
    /\ trace[Len(trace)] = [step |-> "Upgrade", ok |-> TRUE]
    /\ HoldsUpgradeParameters(Cases(fn)[cur])

(***************************************************************************)
(* The claim about the ConnectHelper (checked under HelperSpec).           *)
(***************************************************************************)
\* an Install at position j follows a successful Install at position i
\* with no Upgrade between the two
InstalledAgain(i, j) ==
    /\ i < j
    /\ trace[i] = [step |-> "Install", ok |-> TRUE]
    /\ trace[j].step = "Install"
    /\ \A m \in (i + 1)..(j - 1) : trace[m].step # "Upgrade"

\* C17: an Install called on a helper that has installed, with no Upgrade
\* since, returns an error, and the release is as it was before the call:
\* it is created once.
C17_SecondInstallFailsFast ==
    /\ [](/\ \A i, j \in 1..Len(trace) : InstalledAgain(i, j) => ~trace[j].ok
          /\ release.installs <= 1)
    /\ [][(/\ release.state = "Installed"
            /\ Len(trace') = Len(trace) + 1
            /\ trace'[Len(trace')].step = "Install")
              => ~trace'[Len(trace')].ok /\ release' = release]_vars

C17_Witness ==
    /\ Len(trace) > 1
    /\ trace[Len(trace) - 1] = [step |-> "Install", ok |-> TRUE]
    /\ trace[Len(trace)] = [step |-> "Install", ok |-> FALSE]
    /\ release.installs = 1

(***************************************************************************)
(* The claim about concurrent callers (checked under SharedSpec).          *)
(***************************************************************************)
\* C19: whatever the interleaving of the callers' steps, no step changes
\* the registered context object (no field of it is ever written: the
\* stores go to the callee's copy), and no options object handed to one
\* caller is handed to another.
C19_NoSharedWrite ==
    /\ [][ctxObj' = ctxObj]_vars
    /\ [](/\ ctxObj[SharedCtx].options = Nil
          /\ ctxObj[SharedCtx].client = Nil
          /\ \A g, h \in Callers :
                g # h => caller[g].got \cap caller[h].got = {})

\* g1 has its options while g2, which entered before g1's store, still
\* runs on its copy
C19_Witness ==
    /\ caller["g1"].pc = "returned"
    /\ caller["g1"].op = "KubectlOptions"
    /\ caller["g1"].status = "ok"
    /\ caller["g1"].k.options # Nil
    /\ caller["g2"].pc = "entered"
    /\ caller["g2"].k.options = Nil

====
